---- MODULE Spec2Model ----
(***************************************************************************)
(* A model of pydantic_ai_sops: the discovery of SOPs on disk              *)
(* (discover_sops and its helpers) and the SOPsToolset registry with its   *)
(* tools list_sops, activate_sop, read_sop_resource and refresh.           *)
(*                                                                         *)
(* The disk is the environment: directories that may hold a SOP.md, a      *)
(* FORMS.md resource and a tools/toolset.py, each of which may be a        *)
(* regular file or a symlink to a file outside the SOP directory.          *)
(*                                                                         *)
(* The tools read self._sops several times in one call; refresh replaces   *)
(* self._sops in one assignment.  Each read of self._sops is a step of its *)
(* own, so that a refresh from another thread may fall between two reads.  *)
(*                                                                         *)
(* The SOP record is the one toolset.py builds (lines 279-286) and reads   *)
(* (line 464): it carries has_toolset.  The dataclass in types.py declares *)
(* no such field (it declares scripts, which toolset.py never fills).      *)
(***************************************************************************)
EXTENDS Integers, Sequences, FiniteSets, TLC

VARIABLES
    disk,       \* the filesystem: roots, SOP directories, enumeration order
    validate,   \* self._validate / the validate argument of discover_sops
    hasState,   \* hasattr(ctx.deps, 'state'): the session offers the slot
    sops,       \* self._sops: the catalog, a function from name to SOP
    slot,       \* ctx.deps.state.sop_toolset: the session's tool binding
    pc,         \* where the tool call in progress stands
    arg,        \* the arguments of the tool call in progress
    sop,        \* the local variable sop of activate_sop
    old,        \* history: the catalog the list_sops call in progress first saw
    ret,        \* what the finished tool call returned or raised
    out         \* what a direct call of discover_sops returned or raised

vars == <<disk, validate, hasState, sops, slot, pc, arg, sop, old, ret, out>>

----------------------------------------------------------------------------
(* The disk *)

Directories == <<"r1", "r2">>
Dirs == {"d1", "d2", "d3"}
RootOf(d) == IF d = "d3" THEN "r2" ELSE "r1"

\* frontmatter.get('name') is None or the empty string
NoName == "<missing>"

\* the limits of _validate_sop_metadata
MaxNameLen == 64
MaxDescLen == 1024
MaxLines == 500

\* names that draw a warning: one character too long, with a reserved word,
\* with characters outside a-z, 0-9 and the hyphen
LongName == "xxxxxxxxxxxxxxxxxxxxxxxxxxxxxxxxxxxxxxxxxxxxxxxxxxxxxxxxxxxxxxxxx"
ReservedName == "claude-sop"
BadName == "Bad_Name"

\* Python's order of the strings that serve as SOP names
NameOrder ==
    <<BadName, "a", "b", ReservedName, "d1", "d2", "d3", LongName, "zz">>
Rank(n) == CHOOSE i \in 1..Len(NameOrder) : NameOrder[i] = n

Loc(d, f) == [dir |-> d, file |-> f]
\* a file that lies outside every SOP directory
Outside == Loc("-", "off-tree")
ToolsetFile == "tools/toolset.py"
FormsFile == "FORMS.md"
ManifestFile == "SOP.md"
LowerFile == "sop.md"
\* a subdirectory whose name ends in .md
NotesDir == "notes.md"

\* a directory and what it may hold: SOP.md (manifest, name, desc), its depth
\* under the root, tools/toolset.py, FORMS.md, sop.md (lower), the
\* subdirectory notes.md (mddir), the files of scripts/ and the tree under
\* resources/ (res)
EmptyDir ==
    [manifest |-> "none", name |-> NoName, desc |-> "", toolset |-> "none",
     forms |-> "absent", depth |-> 1, scripts |-> <<>>, res |-> "none",
     lower |-> FALSE, mddir |-> FALSE]

\* resources_dir.rglob('*'): the paths under resources/, relative to the SOP
\* folder, directories included
ResourceTree(kind) ==
    CASE kind = "flat" -> << [name |-> "resources/schema.json", file |-> TRUE] >>
      [] kind = "deep" -> << [name |-> "resources/nested", file |-> FALSE],
                             [name |-> "resources/nested/data.csv", file |-> TRUE],
                             [name |-> "resources/schema.json", file |-> TRUE] >>
      [] OTHER -> <<>>

\* what lies at a path: nothing, a regular file, a directory, or a symlink to
\* Outside
FileState(dk, loc) ==
    IF loc.dir = "-" THEN "regular"
    ELSE IF loc.file = NotesDir
         THEN (IF dk.dirs[loc.dir].mddir THEN "dir" ELSE "absent")
    ELSE IF loc.file = FormsFile THEN dk.dirs[loc.dir].forms
    ELSE IF loc.file = LowerFile
         THEN (IF dk.dirs[loc.dir].lower THEN "regular" ELSE "absent")
    ELSE IF \E i \in DOMAIN ResourceTree(dk.dirs[loc.dir].res) :
                /\ ResourceTree(dk.dirs[loc.dir].res)[i].name = loc.file
                /\ ResourceTree(dk.dirs[loc.dir].res)[i].file
         THEN "regular"
    ELSE IF loc.file = ToolsetFile
         THEN (CASE dk.dirs[loc.dir].toolset = "none" -> "absent"
                 [] dk.dirs[loc.dir].toolset = "outside" -> "outside"
                 [] OTHER -> "regular")
    ELSE "absent"

\* Path.resolve(): symlinks followed; a missing file resolves to itself
resolve(dk, loc) ==
    IF loc.dir # "-" /\ FileState(dk, loc) = "outside" THEN Outside ELSE loc

----------------------------------------------------------------------------
(* Discovery *)

\* str.upper() of a file name
Upper(f) ==
    CASE f = ManifestFile -> "SOP.MD"
      [] f = LowerFile -> "SOP.MD"
      [] f = FormsFile -> "FORMS.MD"
      [] f = NotesDir -> "NOTES.MD"
      [] OTHER -> f

\* sop_folder.glob('*.md'), for a folder that holds SOP.md
GlobMd(dk, d) ==
    (IF dk.dirs[d].forms = "absent" THEN <<>> ELSE <<FormsFile>>)
    \o <<ManifestFile>>
    \o (IF dk.dirs[d].mddir THEN <<NotesDir>> ELSE <<>>)
    \o (IF dk.dirs[d].lower THEN <<LowerFile>> ELSE <<>>)

Descriptors(dk, d, names) ==
    [i \in DOMAIN names |->
        [name |-> names[i], path |-> resolve(dk, Loc(d, names[i]))]]

\* the names of the regular files that resources_dir.rglob('*') yields
ResourceFiles(kind) ==
    LET files == SelectSeq(ResourceTree(kind), LAMBDA x : x.file)
    IN  [i \in DOMAIN files |-> files[i].name]

_discover_resources(dk, d) ==
    Descriptors(dk, d,
        SelectSeq(GlobMd(dk, d), LAMBDA f : Upper(f) # "SOP.MD")
        \o (IF dk.dirs[d].res = "none" THEN <<>>
            ELSE ResourceFiles(dk.dirs[d].res)))

_check_toolset(dk, d) == FileState(dk, Loc(d, ToolsetFile)) # "absent"

Instructions(d) == <<"instructions of", d>>

\* the SOP built from the manifest of directory d under the name nm
SOP(dk, d, nm) ==
    [name |-> nm, path |-> d, desc |-> dk.dirs[d].desc,
     content |-> Instructions(d),
     has_toolset |-> _check_toolset(dk, d),
     resources |-> _discover_resources(dk, d),
     scripts |-> <<>>]

Returned(list) == [state |-> "returned", exc |-> "", sops |-> list]
Raised(e) == [state |-> "raised", exc |-> e, sops |-> <<>>]
NoOut == [state |-> "none", exc |-> "", sops |-> <<>>]

\* a glob that looks only at the children of the root: '*/SOP.md'
ManifestsOf_depth1(dk, r) ==
    IF dk.roots[r] # "dir" THEN <<>>
    ELSE SelectSeq(dk.order,
                   LAMBDA d : /\ RootOf(d) = r
                              /\ dk.dirs[d].manifest # "none"
                              /\ dk.dirs[d].depth = 1)

\* dir_path.glob('**/SOP.md') of every root that is a directory, in order
ManifestsOf(dk, r) ==
    IF dk.roots[r] # "dir" THEN <<>>
    ELSE SelectSeq(dk.order,
                   LAMBDA d : RootOf(d) = r /\ dk.dirs[d].manifest # "none")

RECURSIVE AllManifests(_, _)
AllManifests(dk, roots) ==
    IF roots = <<>> THEN <<>>
    ELSE ManifestsOf(dk, Head(roots)) \o AllManifests(dk, Tail(roots))

\* sop_folder.name
FolderName(d) == d

\* the characters of a name
NameChars(n) ==
    CASE n = LongName -> [i \in 1..(MaxNameLen + 1) |-> "x"]
      [] n = ReservedName -> <<"c", "l", "a", "u", "d", "e", "-", "s", "o", "p">>
      [] n = BadName -> <<"B", "a", "d", "_", "N", "a", "m", "e">>
      [] n = "zz" -> <<"z", "z">>
      [] OTHER -> <<n>>

\* RESERVED_WORDS
RESERVED_WORDS ==
    {<<"a", "n", "t", "h", "r", "o", "p", "i", "c">>,
     <<"c", "l", "a", "u", "d", "e">>}

\* SOP_NAME_PATTERN.match(name): ^[a-z0-9-]+$
SOP_NAME_PATTERN(q) ==
    /\ q # <<>>
    /\ \A i \in DOMAIN q :
          q[i] \in {"a", "b", "c", "d", "e", "f", "g", "h", "i", "j", "k", "l",
                    "m", "n", "o", "p", "q", "r", "s", "t", "u", "v", "w", "x",
                    "y", "z", "0", "1", "2", "3", "4", "5", "6", "7", "8", "9",
                    "-"}

\* reserved in name
Contains(q, w) ==
    \E i \in 1..(Len(q) - Len(w) + 1) : SubSeq(q, i, i + Len(w) - 1) = w

\* the warnings for a manifest that has a name; instructions is the body as
\* its lines
_validate_sop_metadata(name, description, instructions) ==
    LET q == NameChars(name)
    IN  (IF Len(q) > MaxNameLen THEN <<"name exceeds 64 characters">>
         ELSE IF ~ SOP_NAME_PATTERN(q)
              THEN <<"name should contain only lowercase letters, numbers, and hyphens">>
              ELSE <<>>)
        \o (IF \E w \in RESERVED_WORDS : Contains(q, w)
            THEN <<"name contains reserved word">> ELSE <<>>)
        \o (IF Len(description) > MaxDescLen
            THEN <<"description exceeds 1024 characters">> ELSE <<>>)
        \o (IF Len(instructions) > MaxLines
            THEN <<"body exceeds recommended 500 lines">> ELSE <<>>)

Skip == [act |-> "skip", exc |-> ""]

\* a catch-all that skips the manifest whose frontmatter does not decode
load_sop_bad_skipped(dk, v, d) ==
    LET e == dk.dirs[d]
    IN  IF e.manifest \in {"ioerr", "bad"} \/ (v /\ e.name = NoName) THEN Skip
        ELSE [act |-> "append", exc |-> "",
              sop |-> SOP(dk, d, IF e.name = NoName THEN FolderName(d)
                                 ELSE e.name)]

\* the nameless manifest skipped whether or not validate is set
load_sop_nameless_skipped(dk, v, d) ==
    LET e == dk.dirs[d]
    IN  CASE e.manifest = "ioerr" -> Skip
          [] e.manifest = "bad" -> [act |-> "raise", exc |-> "SOPValidationError"]
          [] OTHER ->
               IF e.name = NoName THEN Skip
               ELSE [act |-> "append", exc |-> "", sop |-> SOP(dk, d, e.name)]

\* a validation that leaves out the manifest it warns about
load_sop_warned_skipped(dk, v, d) ==
    LET e == dk.dirs[d]
    IN  CASE e.manifest = "ioerr" -> Skip
          [] e.manifest = "bad" -> [act |-> "raise", exc |-> "SOPValidationError"]
          [] OTHER ->
               IF v /\ e.name = NoName THEN Skip
               ELSE IF v /\ _validate_sop_metadata(e.name, e.desc,
                                                   Instructions(d)) # <<>>
               THEN Skip
               ELSE [act |-> "append", exc |-> "", logged |-> <<>>,
                     sop |-> SOP(dk, d, IF e.name = NoName THEN FolderName(d)
                                        ELSE e.name)]

\* the body of the loop over the manifests, lines 230-296, for the SOP.md of d:
\* the SOP to append, or skip (continue), or the exception that leaves the
\* call; logged is what validation sends to the log
load_sop(dk, v, d) ==
    LET e == dk.dirs[d]
    IN  CASE e.manifest = "ioerr" -> Skip
          [] e.manifest = "bad" -> [act |-> "raise", exc |-> "SOPValidationError"]
          [] OTHER ->
               IF v /\ e.name = NoName THEN Skip
               ELSE [act |-> "append", exc |-> "",
                     logged |-> IF v
                                THEN _validate_sop_metadata(e.name, e.desc,
                                                            Instructions(d))
                                ELSE <<>>,
                     sop |-> SOP(dk, d, IF e.name = NoName THEN FolderName(d)
                                        ELSE e.name)]

RECURSIVE discover_from(_, _, _, _)
discover_from(dk, v, todo, acc) ==
    IF todo = <<>> THEN Returned(acc)
    ELSE LET got == load_sop(dk, v, Head(todo))
         IN  CASE got.act = "raise" -> Raised(got.exc)
               [] got.act = "skip" -> discover_from(dk, v, Tail(todo), acc)
               [] OTHER -> discover_from(dk, v, Tail(todo), Append(acc, got.sop))

discover_sops(dk, v) == discover_from(dk, v, AllManifests(dk, Directories), <<>>)

\* a map that keeps the first of a name
dict_of_first_wins(list) ==
    [n \in {list[i].name : i \in DOMAIN list} |->
        list[CHOOSE i \in DOMAIN list :
                /\ list[i].name = n
                /\ \A j \in DOMAIN list : list[j].name = n => i <= j]]

\* {sop.name: sop for sop in sops}: the last of a name wins
dict_of(list) ==
    [n \in {list[i].name : i \in DOMAIN list} |->
        list[CHOOSE i \in DOMAIN list :
                /\ list[i].name = n
                /\ \A j \in DOMAIN list : list[j].name = n => j <= i]]

EmptyCatalog == dict_of(<<>>)

\* sorted(...) of a set of names
RECURSIVE sorted(_)
sorted(S) ==
    IF S = {} THEN <<>>
    ELSE LET m == CHOOSE x \in S : \A y \in S : Rank(x) <= Rank(y)
         IN  <<m>> \o sorted(S \ {m})

----------------------------------------------------------------------------
(* Path safety and module loading *)

\* the check without resolve(): the path as written
_is_safe_path_unresolved(dk, base, target) == target.dir = base

_is_safe_path(dk, base, target) == resolve(dk, target).dir = base

NoBinding == [dir |-> "none", origin |-> Loc("none", "none")]

\* _import_toolset: the module's sop_ts, or the exception the load ends in
_import_toolset(dk, d) ==
    LET t == dk.dirs[d].toolset
    IN  CASE t = "none" -> [ok |-> FALSE, exc |-> "FileNotFoundError", ts |-> NoBinding]
          [] t = "broken" -> [ok |-> FALSE, exc |-> "Exception", ts |-> NoBinding]
          [] t = "nobinding" -> [ok |-> FALSE, exc |-> "AttributeError", ts |-> NoBinding]
          [] OTHER -> [ok |-> TRUE, exc |-> "",
                       ts |-> [dir |-> d,
                               origin |-> resolve(dk, Loc(d, ToolsetFile))]]

----------------------------------------------------------------------------
(* The registry: what a tool call returns *)

NoRet == [op |-> "none", kind |-> "none"]
NoArg == [sop_name |-> "", resource_name |-> ""]
NoSop == SOP([dirs |-> [d \in Dirs |-> EmptyDir]], "d1", NoName)

Str(op, text) == [op |-> op, kind |-> "str", text |-> text]
Raise(op, e, at) == [op |-> op, kind |-> "raise", exc |-> e, at |-> at]

\* the lines list_sops appends: one per item of sorted(self._sops.items())
list_lines(c) ==
    LET ks == sorted(DOMAIN c)
    IN  [i \in 1..Len(ks) |-> [name |-> ks[i], desc |-> c[ks[i]].desc]]

NoneAvailable == Str("list", "No SOPs available.") @@ [lines |-> <<>>]
Listing(lines) == Str("list", "# Available SOPs") @@ [lines |-> lines]

\* the names in the reverse of the sorted order
RECURSIVE reversed(_)
reversed(q) == IF q = <<>> THEN <<>> ELSE Append(reversed(Tail(q)), Head(q))

ActivateNotFoundText_unsorted(n, c) ==
    [op |-> "activate", kind |-> "str",
     text |-> "Error: SOP not found. Available SOPs:",
     sop_name |-> n, available |-> reversed(sorted(DOMAIN c))]

\* "Error: SOP '...' not found. Available SOPs: ..." ('none' when there are none)
ActivateNotFoundText(n, c) ==
    Str("activate", "Error: SOP not found. Available SOPs:")
        @@ [sop_name |-> n, available |-> sorted(DOMAIN c)]

\* the text of a successful activation: the local sop and the tools bound
Activated(s, ts) ==
    Str("activate", "# SOP:")
        @@ [name |-> s.name, desc |-> s.desc, path |-> s.path, tools |-> ts,
            resources |-> [i \in DOMAIN s.resources |-> s.resources[i].name],
            content |-> s.content]

\* "Error: SOP '...' not found."
ReadSopNotFoundText(n) ==
    Str("read", "Error: SOP not found.") @@ [sop_name |-> n]

\* "Error: Resource '...' not found in SOP '...'. Available resources: [...]"
ReadResourceNotFoundText(n, r, s) ==
    Str("read", "Error: Resource not found in SOP. Available resources:")
        @@ [sop_name |-> n, resource_name |-> r,
            available |-> [i \in DOMAIN s.resources |-> s.resources[i].name]]

PathEscapesText == Str("read", "Error: Resource path escapes SOP directory.")

\* resource.path.read_text(): the content of the file the path leads to
ReadContent(owner, target) ==
    Str("read", "content") @@ [owner |-> owner, source |-> target]

\* lines 508-535 of read_sop_resource, on the SOP s it looked up
read_found(dk, n, r, s) ==
    LET matches == SelectSeq(s.resources, LAMBDA x : x.name = r)
    IN  IF matches = <<>> THEN ReadResourceNotFoundText(n, r, s)
        ELSE LET resource == Head(matches)
             IN  IF ~ _is_safe_path(dk, s.path, resource.path)
                 THEN PathEscapesText
                 ELSE IF FileState(dk, resource.path) \in {"absent", "dir"}
                      THEN Raise("read", "SOPResourceLoadError", "read_text")
                      ELSE ReadContent(s.path, resolve(dk, resource.path))

----------------------------------------------------------------------------
(* The registry: its steps *)

SopNames == {"a", "b", "zz"}
ResourceNames == {FormsFile, "NOPE.md"}

Finish(r) ==
    /\ ret' = r
    /\ pc' = "done"
    /\ arg' = NoArg
    /\ sop' = NoSop
    /\ old' = EmptyCatalog

\* the caller takes the result; the next call may start
Return ==
    /\ pc = "done"
    /\ pc' = "idle"
    /\ ret' = NoRet
    /\ UNCHANGED <<disk, validate, hasState, sops, slot, arg, sop, old, out>>

\* list_sops, line 425: if not self._sops
ListBegin ==
    /\ pc = "idle"
    /\ IF DOMAIN sops = {}
       THEN Finish(NoneAvailable)
       ELSE /\ pc' = "list2"
            /\ old' = sops
            /\ UNCHANGED <<arg, sop, ret>>
    /\ UNCHANGED <<disk, validate, hasState, sops, slot, out>>

\* list_sops, lines 428-433: sorted(self._sops.items())
ListFinish ==
    /\ pc = "list2"
    /\ Finish(Listing(list_lines(sops)))
    /\ UNCHANGED <<disk, validate, hasState, sops, slot, out>>

\* activate_sop, line 449: if sop_name not in self._sops
ActivateBegin(n) ==
    /\ pc = "idle"
    /\ pc' = IF n \notin DOMAIN sops THEN "act_nf" ELSE "act_get"
    /\ arg' = [sop_name |-> n, resource_name |-> ""]
    /\ UNCHANGED <<disk, validate, hasState, sops, slot, sop, old, ret, out>>

\* activate_sop, lines 450-451: sorted(self._sops.keys())
ActivateNotFound ==
    /\ pc = "act_nf"
    /\ Finish(ActivateNotFoundText(arg.sop_name, sops))
    /\ UNCHANGED <<disk, validate, hasState, sops, slot, out>>

\* activate_sop, lines 453-464 and, without a toolset, 474-485
ActivateLookup ==
    /\ pc = "act_get"
    /\ IF arg.sop_name \notin DOMAIN sops
       THEN Finish(Raise("activate", "KeyError", "lookup"))
       ELSE LET s == sops[arg.sop_name]
            IN  IF s.has_toolset
                THEN /\ pc' = "act_ts"
                     /\ sop' = s
                     /\ UNCHANGED <<arg, old, ret>>
                ELSE Finish(Activated(s, NoBinding))
    /\ UNCHANGED <<disk, validate, hasState, sops, slot, out>>

\* _get_toolset, lines 403-405, on the catalog c for the name n
_get_toolset(dk, c, n) ==
    IF n \notin DOMAIN c
    THEN [ok |-> FALSE, exc |-> "KeyError", ts |-> NoBinding]
    ELSE _import_toolset(dk, c[n].path)

\* activate_sop, lines 466-485: load the toolset, publish it, render
ActivateToolset ==
    /\ pc = "act_ts"
    /\ LET got == _get_toolset(disk, sops, arg.sop_name)
       IN  IF ~ got.ok
           THEN /\ Finish(Raise("activate", got.exc, "_get_toolset"))
                /\ slot' = slot
           ELSE /\ Finish(Activated(sop, got.ts))
                /\ slot' = IF hasState THEN got.ts ELSE slot
    /\ UNCHANGED <<disk, validate, hasState, sops, out>>

\* read_sop_resource, lines 505-506: if sop_name not in self._sops
ReadBegin(n, r) ==
    /\ pc = "idle"
    /\ IF n \notin DOMAIN sops
       THEN Finish(ReadSopNotFoundText(n))
       ELSE /\ pc' = "read2"
            /\ arg' = [sop_name |-> n, resource_name |-> r]
            /\ UNCHANGED <<sop, old, ret>>
    /\ UNCHANGED <<disk, validate, hasState, sops, slot, out>>

\* read_sop_resource, lines 508-535
ReadLookup ==
    /\ pc = "read2"
    /\ IF arg.sop_name \notin DOMAIN sops
       THEN Finish(Raise("read", "KeyError", "lookup"))
       ELSE Finish(read_found(disk, arg.sop_name, arg.resource_name,
                              sops[arg.sop_name]))
    /\ UNCHANGED <<disk, validate, hasState, sops, slot, out>>

\* a _discover_sops that empties the catalog before it discovers
_discover_sops_clears(dk, v, c) ==
    LET found == discover_sops(dk, v)
    IN  IF found.state = "raised" THEN EmptyCatalog ELSE dict_of(found.sops)

\* _discover_sops, lines 394-398: the catalog after the call
_discover_sops(dk, v, c) ==
    LET found == discover_sops(dk, v)
    IN  IF found.state = "raised" THEN c ELSE dict_of(found.sops)

\* a refresh that also drops the session's binding
Refresh_drops_binding ==
    /\ sops' = _discover_sops(disk, validate, sops)
    /\ slot' = NoBinding
    /\ UNCHANGED <<disk, validate, hasState, pc, arg, sop, old, ret, out>>

\* refresh, lines 631-637, from any thread
Refresh ==
    /\ sops' = _discover_sops(disk, validate, sops)
    /\ UNCHANGED <<disk, validate, hasState, slot, pc, arg, sop, old, ret, out>>

----------------------------------------------------------------------------
(* The registry: the disks it runs on *)

RegEntries(d) ==
    CASE d = "d1" ->
           {[manifest |-> m, name |-> "a", desc |-> "first", toolset |-> t,
             forms |-> "absent", depth |-> 1, scripts |-> <<>>,
             res |-> "none", lower |-> FALSE,
             mddir |-> FALSE] :
                m \in {"none", "ok"},
                t \in {"none", "ok", "broken", "nobinding", "outside"}}
      [] d = "d2" ->
           {[manifest |-> m, name |-> "b", desc |-> "second",
             toolset |-> "none", forms |-> f, depth |-> 1,
             scripts |-> <<>>, res |-> "none", lower |-> FALSE,
             mddir |-> FALSE] :
                m \in {"none", "ok", "bad"},
                f \in {"absent", "regular", "outside"}}
      [] OTHER -> {EmptyDir}

RegDisks ==
    {[roots |-> [r \in {"r1", "r2"} |-> IF r = "r1" THEN "dir" ELSE "missing"],
      dirs |-> ds, order |-> <<"d1", "d2", "d3">>] :
        ds \in {f \in [Dirs -> UNION {RegEntries(d) : d \in Dirs}] :
                    \A d \in Dirs : f[d] \in RegEntries(d)}}

\* somebody changes one thing in a SOP directory on disk
EditDisk(d, e) ==
    /\ Cardinality({f \in DOMAIN e : e[f] # disk.dirs[d][f]}) = 1
    /\ disk' = [disk EXCEPT !.dirs[d] = e]
    /\ UNCHANGED <<validate, hasState, sops, slot, pc, arg, sop, old, ret, out>>

\* SOPsToolset(directories, auto_discover=True), lines 378-390
Init ==
    /\ disk \in RegDisks
    /\ validate = TRUE
    /\ hasState \in BOOLEAN
    /\ discover_sops(disk, validate).state = "returned"
    /\ sops = dict_of(discover_sops(disk, validate).sops)
    /\ slot = NoBinding
    /\ pc = "idle"
    /\ arg = NoArg
    /\ sop = NoSop
    /\ old = EmptyCatalog
    /\ ret = NoRet
    /\ out = NoOut

Next ==
    \/ \E d \in {"d1", "d2"} : \E e \in RegEntries(d) : EditDisk(d, e)
    \/ Refresh
    \/ ListBegin
    \/ ListFinish
    \/ \E n \in SopNames : ActivateBegin(n)
    \/ ActivateNotFound
    \/ ActivateLookup
    \/ ActivateToolset
    \/ \E n \in SopNames : \E r \in ResourceNames : ReadBegin(n, r)
    \/ ReadLookup
    \/ Return

Spec == Init /\ [][Next]_vars

----------------------------------------------------------------------------
(* the registry with a refresh whose caller sees how it ended *)

\* refresh, lines 631-637: the exception of discover_sops reaches the caller
RefreshCall ==
    /\ sops' = _discover_sops(disk, validate, sops)
    /\ out' = IF discover_sops(disk, validate).state = "raised"
              THEN discover_sops(disk, validate)
              ELSE NoOut
    /\ UNCHANGED <<disk, validate, hasState, slot, pc, arg, sop, old, ret>>

NextRefresh ==
    \/ \E d \in {"d1", "d2"} : \E e \in RegEntries(d) : EditDisk(d, e)
    \/ RefreshCall
    \/ ListBegin
    \/ ListFinish
    \/ \E n \in SopNames : ActivateBegin(n)
    \/ ActivateNotFound
    \/ ActivateLookup
    \/ ActivateToolset
    \/ \E n \in SopNames : \E r \in ResourceNames : ReadBegin(n, r)
    \/ ReadLookup
    \/ Return

SpecRefresh == Init /\ [][NextRefresh]_vars

----------------------------------------------------------------------------
(* the registry over manifests whose names draw warnings; the disk stays *)

NameEntries(d) ==
    CASE d = "d1" ->
           {[EmptyDir EXCEPT !.manifest = "ok", !.name = n, !.desc = "first",
                             !.toolset = t] :
                n \in {"a", LongName, ReservedName, BadName},
                t \in {"none", "ok"}}
      [] d = "d2" ->
           {[EmptyDir EXCEPT !.manifest = m, !.name = "b", !.desc = "second"] :
                m \in {"none", "ok"}}
      [] OTHER -> {EmptyDir}

NameDisks ==
    {[roots |-> [r \in {"r1", "r2"} |-> IF r = "r1" THEN "dir" ELSE "missing"],
      dirs |-> ds, order |-> <<"d1", "d2", "d3">>] :
        ds \in {f \in [Dirs -> UNION {NameEntries(d) : d \in Dirs}] :
                    \A d \in Dirs : f[d] \in NameEntries(d)}}

\* SOPsToolset(directories, validate=..., auto_discover=True)
InitNames ==
    /\ disk \in NameDisks
    /\ validate \in BOOLEAN
    /\ hasState \in BOOLEAN
    /\ discover_sops(disk, validate).state = "returned"
    /\ sops = dict_of(discover_sops(disk, validate).sops)
    /\ slot = NoBinding
    /\ pc = "idle"
    /\ arg = NoArg
    /\ sop = NoSop
    /\ old = EmptyCatalog
    /\ ret = NoRet
    /\ out = NoOut

CallNames == {"a", "b", LongName, ReservedName, BadName}

NextNames ==
    \/ Refresh
    \/ ListBegin
    \/ ListFinish
    \/ \E n \in CallNames : ActivateBegin(n)
    \/ ActivateNotFound
    \/ ActivateLookup
    \/ ActivateToolset
    \/ Return

SpecNames == InitNames /\ [][NextNames]_vars

----------------------------------------------------------------------------
(* discover_sops called directly, on any of a set of disks *)

DiscEntries ==
    {[EmptyDir EXCEPT !.manifest = m] : m \in {"none", "bad", "ioerr"}}
    \cup
    {[EmptyDir EXCEPT !.manifest = "ok", !.name = n, !.desc = ds,
                      !.forms = "regular"] :
        n \in {NoName, "a", "b"}, ds \in {"", "about"}}

ScriptFiles == <<"search.py", "process.py">>

\* d1 may lie deeper under its root, d2 may hold scripts/, d3 may hold sop.md,
\* notes.md/ and a tree under resources/
DiscEntriesOf(d) ==
    LET valid == {e \in DiscEntries : e.manifest = "ok"}
    IN  CASE d = "d1" -> DiscEntries \cup {[e EXCEPT !.depth = 2] : e \in valid}
          [] d = "d2" -> DiscEntries
                         \cup {[e EXCEPT !.scripts = ScriptFiles] : e \in valid}
          [] OTHER -> DiscEntries
                      \cup {[EmptyDir EXCEPT !.manifest = "ok", !.name = "zz",
                                             !.desc = "about", !.forms = f,
                                             !.res = r, !.lower = l,
                                             !.mddir = m] :
                                f \in {"absent", "regular"},
                                r \in {"none", "flat", "deep"},
                                l \in BOOLEAN, m \in BOOLEAN}

DiscDisks ==
    {[roots |-> rs, dirs |-> ds, order |-> o] :
        rs \in {f \in [{"r1", "r2"} -> {"dir", "missing", "file"}] :
                    f["r2"] # "file"},
        ds \in {f \in [Dirs -> UNION {DiscEntriesOf(d) : d \in Dirs}] :
                    \A d \in Dirs : f[d] \in DiscEntriesOf(d)},
        o \in {<<"d1", "d2", "d3">>, <<"d2", "d1", "d3">>}}

InitDiscover ==
    /\ disk \in DiscDisks
    /\ validate \in BOOLEAN
    /\ hasState = FALSE
    /\ sops = EmptyCatalog
    /\ slot = NoBinding
    /\ pc = "idle"
    /\ arg = NoArg
    /\ sop = NoSop
    /\ old = EmptyCatalog
    /\ ret = NoRet
    /\ out = NoOut

\* discover_sops(directories, validate)
DiscoverCall ==
    /\ out.state = "none"
    /\ out' = discover_sops(disk, validate)
    /\ UNCHANGED <<disk, validate, hasState, sops, slot, pc, arg, sop, old, ret>>

\* self._sops = {sop.name: sop for sop in sops}, line 398, of the list returned
CatalogBuild ==
    /\ out.state = "returned"
    /\ pc = "idle"
    /\ sops' = dict_of(out.sops)
    /\ pc' = "built"
    /\ UNCHANGED <<disk, validate, hasState, slot, arg, sop, old, ret, out>>

NextDiscover == DiscoverCall \/ CatalogBuild

SpecDiscover == InitDiscover /\ [][NextDiscover]_vars

----------------------------------------------------------------------------
(* The claims *)

\* the resource descriptors of s named r, in the order of s.resources
Matching(s, r) == SelectSeq(s.resources, LAMBDA x : x.name = r)

\* a read_sop_resource call reaches its lookup with a descriptor that, resolved
\* now, lies outside the directory of the SOP that owns it
ReadsOffTree ==
    /\ pc = "read2"
    /\ pc' = "done"
    /\ arg.sop_name \in DOMAIN sops
    /\ LET s == sops[arg.sop_name]
           m == Matching(s, arg.resource_name)
       IN  /\ m # <<>>
           /\ resolve(disk, Head(m).path).dir # s.path

\* C1: a read_sop_resource call whose matching descriptor resolves outside the
\* owning SOP's directory returns the error string "Resource path escapes SOP
\* directory": it returns no file content and raises nothing.
C1_OffTreeReadRefused == [][ReadsOffTree => ret' = PathEscapesText]_vars

C1_Witness == pc = "done" /\ ret = PathEscapesText

\* C2: whenever activate_sop has loaded a tool module, the module's resolved
\* path lies in the directory of the SOP it was loaded for: neither the text
\* returned nor the session's slot holds a module from outside.
C2_ToolModuleContained ==
    /\ slot # NoBinding => slot.origin.dir = slot.dir
    /\ (pc = "done" /\ ret.op = "activate" /\ ret.kind = "str"
            /\ ret.text = "# SOP:" /\ ret.tools # NoBinding)
       => ret.tools.origin.dir = ret.tools.dir

\* C3: after a successful activate_sop(p) in a session that offers the slot,
\* the slot reflects p and no other SOP: it holds p's toolset if p has one, and
\* it holds no toolset of another SOP.
C3_SlotReflectsLatest ==
    (hasState /\ pc = "done" /\ ret.op = "activate" /\ ret.kind = "str"
        /\ ret.text = "# SOP:")
    => /\ ret.tools # NoBinding => slot = ret.tools
       /\ slot # NoBinding => slot.dir = ret.path

\* what list_sops returns for the catalog c taken as a whole
Rendering(c) ==
    IF DOMAIN c = {} THEN NoneAvailable ELSE Listing(list_lines(c))

\* the names a refresh of the disk has to find, validation on
NamedOnDisk ==
    {disk.dirs[d].name : d \in {x \in Dirs : /\ disk.roots[RootOf(x)] = "dir"
                                             /\ disk.dirs[x].manifest = "ok"
                                             /\ disk.dirs[x].name # NoName}}

\* C4: a list_sops call returns the rendering of the whole catalog it first saw
\* or of the whole catalog at its end, and after a refresh that succeeds the
\* catalog (hence every later list_sops) has every name that is on disk.
C4_ListOldOrNew ==
    /\ [][(pc' = "done" /\ ret'.op = "list")
            => ret' \in {Rendering(IF pc = "list2" THEN old ELSE sops),
                         Rendering(sops)}]_vars
    /\ [][(Refresh /\ discover_sops(disk, validate).state = "returned")
            => NamedOnDisk \subseteq DOMAIN sops']_vars

\* C5: a step that runs refresh, or replaces the catalog, leaves the session's
\* slot as it was, also when the procedure bound in it leaves the catalog.
C5_RefreshKeepsSlot == [][(Refresh \/ sops' # sops) => slot' = slot]_vars

C5_Witness ==
    /\ slot # NoBinding
    /\ \A n \in DOMAIN sops : sops[n].path # slot.dir

\* q lists exactly the names of S, each once, in ascending order
IsSortedListingOf(q, S) ==
    /\ {q[i] : i \in DOMAIN q} = S
    /\ Len(q) = Cardinality(S)
    /\ \A i, j \in DOMAIN q : i < j => Rank(q[i]) < Rank(q[j])

\* C6: activate_sop of a name that is not in the catalog raises nothing and
\* returns the error string that lists the names in the catalog, all of them,
\* sorted; the catalog and the session's slot stay as they were.
C6_ActivateUnknown ==
    [][/\ (pc = "idle" /\ pc' \in {"act_nf", "act_get"}
              /\ arg'.sop_name \notin DOMAIN sops)
          => (pc' = "act_nf" /\ sops' = sops /\ slot' = slot)
       /\ (pc = "act_nf" /\ pc' # pc)
          => /\ pc' = "done"
             /\ ret'.kind = "str"
             /\ ret'.sop_name = arg.sop_name
             /\ IsSortedListingOf(ret'.available, DOMAIN sops)
             /\ sops' = sops
             /\ slot' = slot]_vars

C6_Witness ==
    /\ pc = "done"
    /\ ret.op = "activate"
    /\ ret.text = "Error: SOP not found. Available SOPs:"
    /\ Len(ret.available) = 2

\* C7: read_sop_resource of an unknown name, or of an unknown resource of a
\* known name, returns an error string, and the string lists the alternatives:
\* the names in the catalog, or the names of the SOP's resources.
C7_ReadErrorsListAlternatives ==
    [][/\ (pc = "idle" /\ pc' = "done" /\ ret'.op = "read")
          => /\ ret'.kind = "str"
             /\ "available" \in DOMAIN ret'
             /\ IsSortedListingOf(ret'.available, DOMAIN sops)
       /\ (pc = "read2" /\ pc' = "done" /\ arg.sop_name \in DOMAIN sops
              /\ Matching(sops[arg.sop_name], arg.resource_name) = <<>>)
          => /\ ret'.kind = "str"
             /\ "available" \in DOMAIN ret'
             /\ ret'.available =
                  [i \in DOMAIN sops[arg.sop_name].resources |->
                      sops[arg.sop_name].resources[i].name]]_vars

\* the toolset file of the SOP being activated is there and does not load
ToolsetFailsToLoad ==
    /\ pc = "act_ts"
    /\ pc' = "done"
    /\ arg.sop_name \in DOMAIN sops
    /\ disk.dirs[sops[arg.sop_name].path].toolset \in {"broken", "nobinding"}

\* C8: an activate_sop whose tool module is present but fails to load raises
\* ToolModuleLoadError, no other exception, and publishes no binding.
C8_TypedLoadError ==
    [][ToolsetFailsToLoad
        => /\ ret'.kind = "raise"
           /\ ret'.exc = "ToolModuleLoadError"
           /\ slot' = slot]_vars

\* discover_sops comes to the SOP.md of d
Encountered(d) ==
    disk.roots[RootOf(d)] = "dir" /\ disk.dirs[d].manifest # "none"

EntriesOf(d) == {i \in DOMAIN out.sops : out.sops[i].path = d}

Nameless(d) ==
    Encountered(d) /\ disk.dirs[d].manifest = "ok" /\ disk.dirs[d].name = NoName

Found == {d \in Dirs : Encountered(d)}

\* every manifest found is valid and has a description and a name of its own
AllValidDistinct ==
    /\ \A d \in Found : /\ disk.dirs[d].manifest = "ok"
                        /\ disk.dirs[d].name # NoName
                        /\ disk.dirs[d].desc # ""
    /\ \A d, e \in Found : d # e => disk.dirs[d].name # disk.dirs[e].name

Declares(d, n) ==
    /\ Encountered(d)
    /\ disk.dirs[d].manifest = "ok"
    /\ \/ disk.dirs[d].name = n /\ n # NoName
       \/ disk.dirs[d].name = NoName /\ ~ validate /\ FolderName(d) = n

\* the places of the returned list that hold the name n
Holding(n) == {i \in DOMAIN out.sops : out.sops[i].name = n}

Stem(f) ==
    CASE f = "search.py" -> "search"
      [] f = "process.py" -> "process"
      [] OTHER -> f

\* C14: every entry of the list discover_sops returns has, for the K files of
\* the scripts/ subdirectory of its folder, a scripts list of exactly K
\* elements, named by the file names without .py.
C14_ScriptsListed ==
    out.state = "returned" =>
        \A i \in DOMAIN out.sops :
            LET files == disk.dirs[out.sops[i].path].scripts
                found == out.sops[i].scripts
            IN  /\ Len(found) = Len(files)
                /\ {found[k].name : k \in DOMAIN found}
                       = {Stem(files[k]) : k \in DOMAIN files}

\* the markdown files directly in d other than SOP.md, and the regular files
\* under resources/
ResourceFilesOf(d) ==
    (IF disk.dirs[d].forms # "absent" THEN {FormsFile} ELSE {})
    \cup (IF disk.dirs[d].lower THEN {LowerFile} ELSE {})
    \cup (CASE disk.dirs[d].res = "flat" -> {"resources/schema.json"}
            [] disk.dirs[d].res = "deep" -> {"resources/schema.json",
                                            "resources/nested/data.csv"}
            [] OTHER -> {})

\* C15: the resource descriptors of every entry discover_sops returns are, by
\* name, exactly the markdown files directly in its folder other than SOP.md
\* and the regular files at any depth under resources/, named by their path
\* from the folder; none is missing and none is there twice.
C15_ResourcesExact ==
    out.state = "returned" =>
        \A i \in DOMAIN out.sops :
            LET found == out.sops[i].resources
            IN  /\ {found[k].name : k \in DOMAIN found}
                       = ResourceFilesOf(out.sops[i].path)
                /\ \A k, l \in DOMAIN found :
                       found[k].name = found[l].name => k = l

\* C16: an activate_sop or read_sop_resource call never ends in the lookup
\* error of a name that a refresh took out of the catalog between two of the
\* call's reads of self._sops; it returns a text (the answer from the catalog
\* it saw, or the not-found text) or fails for a reason of its own.
C16_NoLookupErrorAcrossRefresh ==
    (pc = "done" /\ ret.op \in {"activate", "read"} /\ ret.kind = "raise")
        => ret.exc # "KeyError"

\* C17: a refresh (the one step that moves neither the disk nor a tool call)
\* whose discover_sops raises leaves self._sops as it was and fails itself, so
\* that list_sops, activate_sop and read_sop_resource, which read nothing of
\* the registry but self._sops, answer after it as before it.
C17_FailedRefreshKeepsCatalog ==
    [][(/\ disk' = disk
        /\ pc' = pc
        /\ discover_sops(disk, validate).state = "raised") => /\ sops' = sops
                                                              /\ out'.state = "raised"]_vars

\* the last refresh failed and the catalog still holds what it held
C17_Witness ==
    /\ out = Raised("SOPValidationError")
    /\ "a" \in DOMAIN sops
    /\ disk.dirs["d2"].manifest = "bad"

\* what validation has to say about the manifest of d
WarningsOf(d) ==
    _validate_sop_metadata(disk.dirs[d].name, disk.dirs[d].desc, Instructions(d))

\* the manifest of d is found, decodes, and validation warns about its name
Warned(d) ==
    /\ Encountered(d)
    /\ disk.dirs[d].manifest = "ok"
    /\ disk.dirs[d].name # NoName
    /\ WarningsOf(d) # <<>>

====
